---------------------------- MODULE Spec2Model ----------------------------
(***************************************************************************)
(* Chunked LoRa message transport of rhs-metsanauts/raspi.                 *)
(*                                                                         *)
(*   src/transmitter_lora.py  create_packets and the module-level send     *)
(*                            sequence (the fragmenter)                    *)
(*   src/receiver_lora.py     parse_packet, reassemble_message and the     *)
(*                            main receive loop (the reassembler)          *)
(*                                                                         *)
(* Bytes are the integers 0..255, a bytes object is a sequence of them.    *)
(* A JSON document is a tagged tree; json.dumps and json.loads are written *)
(* out for the part of JSON the model's byte strings use: the literals,    *)
(* integers, strings without escapes, arrays and objects, with Python's    *)
(* whitespace. Bytes >= 128 stand for input that is not UTF-8 (the model   *)
(* uses 255, which no UTF-8 text contains); backslash escapes, fractions   *)
(* and exponents do not occur in any byte string of the model.             *)
(***************************************************************************)
EXTENDS Integers, Sequences, FiniteSets, TLC

VARIABLES
    packet_buffer,  \* receiver_lora.py:28   pcid -> [total_chunks, chunks, timestamp]
    out,            \* the DATA_JSON lines printed so far (receiver_lora.py:151)
    now,            \* time.monotonic(), in whole seconds
    rx,             \* what the latest rfm95.receive returned: [got, packet]
    trace,          \* what the latest loop iteration did (its log lines)
    log,            \* the packets received so far, in arrival order
    running,        \* the receiver is in its while True loop (no error got out)
    tx              \* the transmitter script: its position and what it has sent

vars == <<packet_buffer, out, now, rx, trace, log, running, tx>>

---------------------------------------------------------------------------
(* Bytes                                                                   *)

Max(a, b) == IF a >= b THEN a ELSE b
Min(a, b) == IF a <= b THEN a ELSE b

RECURSIVE Pow(_, _)
Pow(b, e) == IF e = 0 THEN 1 ELSE b * Pow(b, e - 1)

\* int.to_bytes(k, 'little') for 0 <= n < 256^k
to_bytes(n, k) == [i \in 1..k |-> (n \div Pow(256, i - 1)) % 256]

\* int.from_bytes(b, 'little')
RECURSIVE from_bytes(_)
from_bytes(b) ==
    IF b = <<>> THEN 0 ELSE Head(b) + 256 * from_bytes(Tail(b))

\* bytes.ljust(width, b'\x00')
ljust(b, width) == b \o [i \in 1..Max(0, width - Len(b)) |-> 0]

\* bytes.rstrip(b'\x00')
rstrip(b) ==
    LET keep == {i \in 1..Len(b) : b[i] # 0}
        last == IF keep = {} THEN 0 ELSE CHOOSE i \in keep : \A j \in keep : j <= i
    IN  SubSeq(b, 1, last)

\* b[start:end] of Python, 0-based, end exclusive
Slice(b, start, end) == SubSeq(b, start + 1, Min(end, Len(b)))

Repeat(c, n) == [i \in 1..n |-> c]

---------------------------------------------------------------------------
(* JSON documents, json.dumps and json.loads                               *)

VNull    == [t |-> "null", n |-> 0, s |-> <<>>, kids |-> <<>>]
VBool(b) == [t |-> "bool", n |-> IF b THEN 1 ELSE 0, s |-> <<>>, kids |-> <<>>]
VNum(k)  == [t |-> "num",  n |-> k, s |-> <<>>, kids |-> <<>>]
VStr(s)  == [t |-> "str",  n |-> 0, s |-> s, kids |-> <<>>]
VSeq(vs) == [t |-> "seq",  n |-> 0, s |-> <<>>, kids |-> vs]
VPair(k, v) == [t |-> "pair", n |-> 0, s |-> k, kids |-> <<v>>]
VMap(ps) == [t |-> "map",  n |-> 0, s |-> <<>>, kids |-> ps]

LitNull  == <<110, 117, 108, 108>>            \* null
LitTrue  == <<116, 114, 117, 101>>            \* true
LitFalse == <<102, 97, 108, 115, 101>>        \* false
Ws       == {32, 9, 10, 13}
Digits   == 48..57

RECURSIVE DecDigits(_)
DecDigits(n) ==
    IF n < 10 THEN <<48 + n>> ELSE DecDigits(n \div 10) \o <<48 + (n % 10)>>

RECURSIVE JsonDumps(_), JoinDumps(_)
\* json.dumps(v) with the default separators ", " and ": "
JsonDumps(v) ==
    CASE v.t = "null" -> LitNull
      [] v.t = "bool" -> IF v.n = 1 THEN LitTrue ELSE LitFalse
      [] v.t = "num"  -> IF v.n < 0 THEN <<45>> \o DecDigits(-v.n) ELSE DecDigits(v.n)
      [] v.t = "str"  -> <<34>> \o v.s \o <<34>>
      [] v.t = "seq"  -> <<91>> \o JoinDumps(v.kids) \o <<93>>
      [] v.t = "pair" -> <<34>> \o v.s \o <<34, 58, 32>> \o JsonDumps(v.kids[1])
      [] v.t = "map"  -> <<123>> \o JoinDumps(v.kids) \o <<125>>

JoinDumps(vs) ==
    IF vs = <<>> THEN <<>>
    ELSE JsonDumps(Head(vs))
         \o (IF Len(vs) > 1 THEN <<44, 32>> \o JoinDumps(Tail(vs)) ELSE <<>>)

ParseFail == [ok |-> FALSE, next |-> 0, v |-> VNull]
Parsed(v, next) == [ok |-> TRUE, next |-> next, v |-> v]

\* the first position >= i that holds no whitespace (Len(s) + 1 at the end)
SkipWs(s, i) ==
    CHOOSE j \in i..(Len(s) + 1) :
        /\ (j = Len(s) + 1 \/ s[j] \notin Ws)
        /\ \A k \in i..(j - 1) : s[k] \in Ws

MatchAt(s, i, lit) ==
    /\ i + Len(lit) - 1 <= Len(s)
    /\ SubSeq(s, i, i + Len(lit) - 1) = lit

\* a string literal opening at s[i] = '"': control characters are an error
ParseString(s, i) ==
    IF ~ \E j \in (i + 1)..Len(s) : s[j] = 34 THEN ParseFail
    ELSE LET j == CHOOSE j \in (i + 1)..Len(s) :
                      s[j] = 34 /\ \A k \in (i + 1)..(j - 1) : s[k] # 34
             body == SubSeq(s, i + 1, j - 1)
         IN  IF \A k \in 1..Len(body) : body[k] >= 32
             THEN Parsed(VStr(body), j + 1) ELSE ParseFail

RECURSIVE DigitsValue(_)
DigitsValue(ds) ==
    IF ds = <<>> THEN 0 ELSE 10 * DigitsValue(SubSeq(ds, 1, Len(ds) - 1)) + (ds[Len(ds)] - 48)

\* -?(0|[1-9][0-9]*) at s[i]
ParseNumber(s, i) ==
    LET neg == s[i] = 45
        d   == IF neg THEN i + 1 ELSE i
    IN  IF d > Len(s) \/ s[d] \notin Digits THEN ParseFail
        ELSE LET e == IF s[d] = 48 THEN d
                      ELSE CHOOSE e \in d..Len(s) :
                               /\ \A k \in d..e : s[k] \in Digits
                               /\ (e = Len(s) \/ s[e + 1] \notin Digits)
                 m == DigitsValue(SubSeq(s, d, e))
             IN  Parsed(VNum(IF neg THEN -m ELSE m), e + 1)

\* a dict keeps a key's first position and its last value
PutPair(ps, k, v) ==
    IF \E i \in 1..Len(ps) : ps[i].s = k
    THEN [i \in 1..Len(ps) |-> IF ps[i].s = k THEN VPair(k, v) ELSE ps[i]]
    ELSE Append(ps, VPair(k, v))

RECURSIVE ParseValue(_, _), ParseElems(_, _, _), ParseMembers(_, _, _)
ParseValue(s, i) ==
    IF i > Len(s) THEN ParseFail
    ELSE CASE s[i] = 110 -> IF MatchAt(s, i, LitNull) THEN Parsed(VNull, i + 4) ELSE ParseFail
           [] s[i] = 116 -> IF MatchAt(s, i, LitTrue) THEN Parsed(VBool(TRUE), i + 4) ELSE ParseFail
           [] s[i] = 102 -> IF MatchAt(s, i, LitFalse) THEN Parsed(VBool(FALSE), i + 5) ELSE ParseFail
           [] s[i] = 34  -> ParseString(s, i)
           [] s[i] = 45 \/ s[i] \in Digits -> ParseNumber(s, i)
           [] s[i] = 91  ->
                LET j == SkipWs(s, i + 1)
                IN  IF j <= Len(s) /\ s[j] = 93 THEN Parsed(VSeq(<<>>), j + 1)
                    ELSE ParseElems(s, j, <<>>)
           [] s[i] = 123 ->
                LET j == SkipWs(s, i + 1)
                IN  IF j <= Len(s) /\ s[j] = 125 THEN Parsed(VMap(<<>>), j + 1)
                    ELSE ParseMembers(s, j, <<>>)
           [] OTHER -> ParseFail

ParseElems(s, i, acc) ==
    LET r == ParseValue(s, i)
    IN  IF ~r.ok THEN ParseFail
        ELSE LET j    == SkipWs(s, r.next)
                 acc2 == Append(acc, r.v)
             IN  IF j > Len(s) THEN ParseFail
                 ELSE IF s[j] = 44 THEN ParseElems(s, SkipWs(s, j + 1), acc2)
                 ELSE IF s[j] = 93 THEN Parsed(VSeq(acc2), j + 1)
                 ELSE ParseFail

ParseMembers(s, i, acc) ==
    IF i > Len(s) \/ s[i] # 34 THEN ParseFail
    ELSE LET k == ParseString(s, i)
         IN  IF ~k.ok THEN ParseFail
             ELSE LET c == SkipWs(s, k.next)
                  IN  IF c > Len(s) \/ s[c] # 58 THEN ParseFail
                      ELSE LET r == ParseValue(s, SkipWs(s, c + 1))
                           IN  IF ~r.ok THEN ParseFail
                               ELSE LET j    == SkipWs(s, r.next)
                                        acc2 == PutPair(acc, k.v.s, r.v)
                                    IN  IF j > Len(s) THEN ParseFail
                                        ELSE IF s[j] = 44
                                             THEN ParseMembers(s, SkipWs(s, j + 1), acc2)
                                        ELSE IF s[j] = 125 THEN Parsed(VMap(acc2), j + 1)
                                        ELSE ParseFail

\* full_data.decode('utf-8') raises on a byte that is not UTF-8
Utf8Ok(b) == \A i \in 1..Len(b) : b[i] < 128

\* the document must end the text: anything but whitespace after it is an error
WholeText(b, r) ==
    IF r.ok /\ SkipWs(b, r.next) = Len(b) + 1 THEN r ELSE ParseFail

\* json.loads(full_data.decode('utf-8')): [ok, v]; ok = FALSE is the exception
JsonLoads(b) ==
    IF ~Utf8Ok(b) THEN ParseFail ELSE WholeText(b, ParseValue(b, SkipWs(b, 1)))

---------------------------------------------------------------------------
(* transmitter_lora.py: create_packets                                     *)

chunk_size == 243

\* a variant that counts one chunk more than the full ones
total_chunks_for_Floor(length) == length \div chunk_size + 1

\* total_chunks = (len(json_bytes) + chunk_size - 1) // chunk_size
total_chunks_for(length) == (length + chunk_size - 1) \div chunk_size

\* a variant that already rejects a payload of exactly 65535 chunks
DataTooLarge_FromLimit(length) == total_chunks_for(length) >= 65535

\* if total_chunks > 65535: raise ValueError
DataTooLarge(length) == total_chunks_for(length) > 65535

\* a variant that caps the recipient at 255 instead of masking it
BuildPacket_Capped(recipient_id, packet_content_id, index, total_chunks, chunk) ==
    <<Max(0, Min(recipient_id, 255))>>
    \o to_bytes(packet_content_id, 4)
    \o to_bytes(index, 2)
    \o to_bytes(total_chunks, 2)
    \o chunk

\* "Build packet": 9 header bytes, then the chunk
BuildPacket(recipient_id, packet_content_id, index, total_chunks, chunk) ==
    <<recipient_id % 256>>
    \o to_bytes(packet_content_id, 4)
    \o to_bytes(index, 2)
    \o to_bytes(total_chunks, 2)
    \o chunk

\* a variant that does not pad the last chunk
ChunkAt_NoPad(json_bytes, index) ==
    Slice(json_bytes, index * chunk_size,
          Min(index * chunk_size + chunk_size, Len(json_bytes)))

\* the chunk of one index: json_bytes[start:end].ljust(chunk_size, b'\x00')
ChunkAt(json_bytes, index) ==
    LET start == index * chunk_size
        end   == Min(start + chunk_size, Len(json_bytes))
    IN  ljust(Slice(json_bytes, start, end), chunk_size)

\* [raised, packets]: raised = TRUE is the ValueError, and no list is returned
create_packets(json_data, recipient_id, packet_content_id) ==
    LET json_bytes   == JsonDumps(json_data)
        total_chunks == total_chunks_for(Len(json_bytes))
    IN  IF DataTooLarge(Len(json_bytes))
        THEN [raised |-> TRUE, packets |-> <<>>]
        ELSE [raised |-> FALSE,
              packets |-> [k \in 1..total_chunks |->
                  BuildPacket(recipient_id, packet_content_id, k - 1, total_chunks,
                              ChunkAt(json_bytes, k - 1))]]

---------------------------------------------------------------------------
(* receiver_lora.py: parse_packet, reassemble_message                      *)

MY_ID == 0

NotParsed == [ok |-> FALSE, recipient_id |-> 0, packet_content_id |-> 0,
              index |-> 0, total_chunks |-> 0, data |-> <<>>]

\* a variant that takes the count from bytes 5-6 and the index from 7-8
parse_packet_Swapped(packet) ==
    IF Len(packet) < 9 THEN NotParsed
    ELSE [ok |-> TRUE,
          recipient_id |-> packet[1],
          packet_content_id |-> from_bytes(SubSeq(packet, 2, 5)),
          index |-> from_bytes(SubSeq(packet, 8, 9)),
          total_chunks |-> from_bytes(SubSeq(packet, 6, 7)),
          data |-> SubSeq(packet, 10, Len(packet))]

\* a variant that also rejects a packet of the header alone
parse_packet_NeedsData(packet) ==
    IF Len(packet) <= 9 THEN NotParsed
    ELSE [ok |-> TRUE,
          recipient_id |-> packet[1],
          packet_content_id |-> from_bytes(SubSeq(packet, 2, 5)),
          index |-> from_bytes(SubSeq(packet, 6, 7)),
          total_chunks |-> from_bytes(SubSeq(packet, 8, 9)),
          data |-> SubSeq(packet, 10, Len(packet))]

\* ok = FALSE is the None that parse_packet returns for a short packet
parse_packet(packet) ==
    IF Len(packet) < 9 THEN NotParsed
    ELSE [ok |-> TRUE,
          recipient_id |-> packet[1],
          packet_content_id |-> from_bytes(SubSeq(packet, 2, 5)),
          index |-> from_bytes(SubSeq(packet, 6, 7)),
          total_chunks |-> from_bytes(SubSeq(packet, 8, 9)),
          data |-> SubSeq(packet, 10, Len(packet))]

RECURSIVE Concat(_, _, _)
\* chunks[from] + ... + chunks[to - 1]
Concat(chunks, from, to) ==
    IF from >= to THEN <<>> ELSE chunks[from] \o Concat(chunks, from + 1, to)

None == [none |-> TRUE, v |-> VNull]

\* the bytes that reassemble_message decodes: the chunks in index order,
\* the zero padding stripped
FullData(info) == rstrip(Concat(info.chunks, 0, info.total_chunks))

\* lines 89-95: the decoded document, or None when decoding raised; [none, v],
\* where none = TRUE is the None of Python, which json.loads also returns for
\* the document null
Decoded(r) == IF r.ok THEN [none |-> r.v.t = "null", v |-> r.v] ELSE None

RECURSIVE ConcatPresent(_, _)
ConcatPresent(chunks, todo) ==
    IF todo = {} THEN <<>>
    ELSE LET i == CHOOSE i \in todo : \A j \in todo : i <= j
         IN  chunks[i] \o ConcatPresent(chunks, todo \ {i})

\* a variant that joins the chunks it holds, in index order, without asking
\* whether an index of the range is missing
reassemble_message_Present(buffer, packet_content_id) ==
    IF packet_content_id \notin DOMAIN buffer THEN None
    ELSE LET packet_info == buffer[packet_content_id]
             chunks      == packet_info.chunks
         IN  IF Cardinality(DOMAIN chunks) # packet_info.total_chunks THEN None
             ELSE Decoded(JsonLoads(rstrip(ConcatPresent(chunks, DOMAIN chunks))))

\* a variant that does not compare the number of chunks with the count
reassemble_message_NoCount(buffer, packet_content_id) ==
    IF packet_content_id \notin DOMAIN buffer THEN None
    ELSE LET packet_info  == buffer[packet_content_id]
             chunks       == packet_info.chunks
             total_chunks == packet_info.total_chunks
         IN  IF \E i \in 0..(total_chunks - 1) : i \notin DOMAIN chunks THEN None
             ELSE Decoded(JsonLoads(FullData(packet_info)))

reassemble_message(buffer, packet_content_id) ==
    IF packet_content_id \notin DOMAIN buffer THEN None
    ELSE LET packet_info  == buffer[packet_content_id]
             chunks       == packet_info.chunks
             total_chunks == packet_info.total_chunks
         IN  IF Cardinality(DOMAIN chunks) # total_chunks THEN None
             ELSE IF \E i \in 0..(total_chunks - 1) : i \notin DOMAIN chunks THEN None
             ELSE Decoded(JsonLoads(FullData(packet_info)))

---------------------------------------------------------------------------
(* receiver_lora.py: one iteration of the main receive loop                *)

NoChunks == [i \in {} |-> <<>>]

\* a variant that stamps the entry anew with every packet
StoreChunk_Restamp(buffer, parsed, t) ==
    LET id == parsed.packet_content_id
        b1 == IF id \in DOMAIN buffer THEN buffer
              ELSE (id :> [total_chunks |-> parsed.total_chunks,
                           chunks |-> NoChunks,
                           timestamp |-> t]) @@ buffer
    IN  [b1 EXCEPT ![id].chunks = (parsed.index :> parsed.data) @@ @,
                   ![id].timestamp = t]

\* lines 131-140: create the entry if needed, store the chunk at its index
StoreChunk(buffer, parsed, t) ==
    LET id == parsed.packet_content_id
        b1 == IF id \in DOMAIN buffer THEN buffer
              ELSE (id :> [total_chunks |-> parsed.total_chunks,
                           chunks |-> NoChunks,
                           timestamp |-> t]) @@ buffer
    IN  [b1 EXCEPT ![id].chunks = (parsed.index :> parsed.data) @@ @]

\* line 144: received_chunks == total_chunks, the total of the packet in hand
AllChunksReceived(buffer, parsed) ==
    Cardinality(DOMAIN buffer[parsed.packet_content_id].chunks) = parsed.total_chunks

\* a variant without the address check
NotForUs_Never(parsed) == FALSE

\* a variant that knows no broadcast address
NotAddressedTo_OwnOnly(recipient_id, my_id) == recipient_id # my_id

\* line 125: recipient_id != MY_ID and recipient_id != 255
NotAddressedTo(recipient_id, my_id) == recipient_id # my_id /\ recipient_id # 255

\* line 125: the packet is not for us
NotForUs(parsed) == NotAddressedTo(parsed.recipient_id, MY_ID)

\* a variant that also takes the entries that are exactly 60 seconds old
ExpiredIds_From60(buffer, current_time) ==
    {pcid \in DOMAIN buffer : current_time - buffer[pcid].timestamp >= 60}

\* lines 167-169: the ids whose entry is older than 60 seconds
ExpiredIds(buffer, current_time) ==
    {pcid \in DOMAIN buffer : current_time - buffer[pcid].timestamp > 60}

\* lines 171-173
DeleteIds(buffer, ids) == [pcid \in (DOMAIN buffer) \ ids |-> buffer[pcid]]

Trace(kind, all, failed, expired, swept) ==
    [kind |-> kind, all |-> all, failed |-> failed, expired |-> expired, swept |-> swept]

\* lines 149-155: print the document and delete the entry, or report failure
Emit(buffer, o, packet_content_id, json_data) ==
    IF ~json_data.none
    THEN [buffer |-> DeleteIds(buffer, {packet_content_id}),
          out |-> Append(o, JsonDumps(json_data.v)),
          all |-> TRUE, failed |-> FALSE]
    ELSE [buffer |-> buffer, out |-> o, all |-> TRUE, failed |-> TRUE]

\* lines 142-157: the completion branch, on the buffer that holds the chunk
Completion(buffer, o, parsed) ==
    IF AllChunksReceived(buffer, parsed)
    THEN Emit(buffer, o, parsed.packet_content_id,
              reassemble_message(buffer, parsed.packet_content_id))
    ELSE [buffer |-> buffer, out |-> o, all |-> FALSE, failed |-> FALSE]

\* lines 164-173: the sweep that ends an iteration which was not cut short
Sweep(buffer, o, t, kind, all, failed) ==
    [buffer |-> DeleteIds(buffer, ExpiredIds(buffer, t)),
     out |-> o,
     trace |-> Trace(kind, all, failed, ExpiredIds(buffer, t), TRUE)]

SweepAfter(c, t) == Sweep(c.buffer, c.out, t, "stored", c.all, c.failed)

\* lines 116 and 127: continue, which goes back to the receive call
Continue(buffer, o, kind) ==
    [buffer |-> buffer, out |-> o, trace |-> Trace(kind, FALSE, FALSE, {}, FALSE)]

\* lines 118-173 for a parsed packet
Handle(buffer, o, t, parsed) ==
    IF ~parsed.ok THEN Continue(buffer, o, "invalid")
    ELSE IF NotForUs(parsed) THEN Continue(buffer, o, "foreign")
    ELSE SweepAfter(Completion(StoreChunk(buffer, parsed, t), o, parsed), t)

\* a variant whose handler lets the error out of the loop
OnException_Raise(buffer, o) ==
    [buffer |-> buffer, out |-> o,
     trace |-> Trace("error", FALSE, FALSE, {}, FALSE), running |-> FALSE]

\* lines 175-177: except Exception: print the error, sleep one second, and
\* go round the loop again
OnException(buffer, o) ==
    [buffer |-> buffer, out |-> o,
     trace |-> Trace("error", FALSE, FALSE, {}, FALSE), running |-> TRUE]

\* lines 106-173, for what receive returned: got = FALSE is None (the timeout)
LoopBody(buffer, o, t, got, packet) ==
    IF ~got THEN Sweep(buffer, o, t, "none", FALSE, FALSE)
    ELSE Handle(buffer, o, t, parse_packet(packet))

---------------------------------------------------------------------------
(* The state machine                                                       *)

MaxNow  == 62      \* the clock is followed up to this many seconds
MaxOut  == 2       \* the receiver is followed up to this many DATA_JSON lines
MaxRecv == 4       \* the longest arrival sequence of the round-trip specification
MaxSend == 4       \* the send loop is followed up to this many sends
MaxRuns == 2       \* the transmitter script is run up to this many times

\* time.monotonic() moves forward between two calls by one of these amounts
TickSteps == {30, 31}

NoPacket == [got |-> FALSE, packet |-> <<>>]
TxIdle   == [pc |-> "idle", length |-> 0, total |-> 0, i |-> 0, sent |-> <<>>,
             id |-> 0, earlier |-> <<>>]

Init ==
    /\ packet_buffer = <<>>
    /\ out = <<>>
    /\ now = 0
    /\ rx = NoPacket
    /\ trace = Trace("start", FALSE, FALSE, {}, FALSE)
    /\ log = <<>>
    /\ running = TRUE
    /\ tx = TxIdle

\* the state after an iteration whose result is r
Becomes(r, got, packet) ==
    /\ packet_buffer' = r.buffer
    /\ out' = r.out
    /\ trace' = r.trace
    /\ rx' = [got |-> got, packet |-> packet]
    /\ UNCHANGED <<now, running, tx>>

\* one iteration of the while True loop, for what rfm95.receive returns
Iterate(got, packet) ==
    /\ running
    /\ Becomes(LoopBody(packet_buffer, out, now, got, packet), got, packet)

\* rfm95.receive(timeout=5.0) returned None
ReceiveTimeout == Iterate(FALSE, <<>>) /\ UNCHANGED log

\* rfm95.receive returned a packet
Receive(packet) ==
    /\ Len(out) < MaxOut
    /\ Iterate(TRUE, packet)
    /\ UNCHANGED log

\* rfm95.receive (or the read of rfm95.last_rssi) raised an Exception: the
\* iteration ends in the handler, before anything was parsed or stored. The
\* second the handler sleeps is time that Tick lets pass.
ReceiveError ==
    /\ running
    /\ packet_buffer' = OnException(packet_buffer, out).buffer
    /\ out' = OnException(packet_buffer, out).out
    /\ trace' = OnException(packet_buffer, out).trace
    /\ running' = OnException(packet_buffer, out).running
    /\ rx' = NoPacket
    /\ UNCHANGED <<now, log, tx>>

\* the same, the arrival recorded
Deliver(packet) ==
    /\ Len(log) < MaxRecv
    /\ Iterate(TRUE, packet)
    /\ log' = Append(log, packet)

\* Time passes between two iterations. A timeout iteration that evicts
\* nothing changes nothing, so one step of the clock also stands for the
\* quiet 5-second timeouts that passed meanwhile.
Tick ==
    \E d \in TickSteps :
        /\ now + d <= MaxNow
        /\ now' = now + d
        /\ UNCHANGED <<packet_buffer, out, rx, trace, log, running, tx>>

---------------------------------------------------------------------------
(* Spec: the receiver under arbitrary traffic                              *)

Key(c) == <<c>>
DocA7 == VMap(<<VPair(Key(97), VNum(7))>>)        \* {"a": 7}

\* a message of two chunks, "[7]" and " ", from a sender with short chunks
Y0 == BuildPacket(MY_ID, 0, 0, 2, <<91, 55, 93>>)
Y1 == BuildPacket(255, 0, 1, 2, <<32>>)
\* a header-only packet whose index is out of the range of its count
O5 == BuildPacket(MY_ID, 0, 5, 2, <<>>)
\* a packet of the same id and index as Y1 that carries another count
I1 == BuildPacket(MY_ID, 0, 1, 3, <<32>>)
\* one-chunk messages: text that does not decode, the document null,
\* and what create_packets makes of {"a": 7}
U0 == BuildPacket(MY_ID, 1, 0, 1, <<123>>)
N0 == BuildPacket(MY_ID, 1, 0, 1, LitNull)
G0 == create_packets(DocA7, MY_ID, 1).packets[1]
\* packets for the receivers 7 and 254, and a packet cut to 8 bytes
F1 == BuildPacket(7, 0, 1, 2, <<32>>)
F2 == BuildPacket(254, 1, 0, 1, <<55>>)
T8 == SubSeq(Y0, 1, 8)

Packets == {Y0, Y1, O5, I1, U0, N0, G0, F1, F2, T8}

Next ==
    \/ Tick
    \/ ReceiveTimeout
    \/ ReceiveError
    \/ \E packet \in Packets : Receive(packet)

Spec == Init /\ [][Next]_vars

---------------------------------------------------------------------------
(* SpecRT: the packets of create_packets, delivered within one timeout     *)
(* window to a receiver that starts with an empty table                    *)

DocsRT ==
    << VNull,
       DocA7,
       VStr(Repeat(97, 241)),       \* 243 bytes: one full chunk, no padding
       VStr(Repeat(97, 243)),       \* 245 bytes: two chunks
       VStr(Repeat(97, 498)) >>     \* 500 bytes: chunks of 243, 243 and 14

PacketsRT == [k \in 1..Len(DocsRT) |-> create_packets(DocsRT[k], MY_ID, 0).packets]
PayloadRT == [k \in 1..Len(DocsRT) |-> JsonDumps(DocsRT[k])]

AllPacketsRT == UNION {{PacketsRT[k][i] : i \in 1..Len(PacketsRT[k])} : k \in 1..Len(DocsRT)}

NextRT ==
    \/ ReceiveTimeout
    \/ \E packet \in AllPacketsRT : Deliver(packet)

SpecRT == Init /\ [][NextRT]_vars

---------------------------------------------------------------------------
(* SpecLive: the receiver under traffic, its loop and the clock kept going *)

LivePackets == {Y0, Y1, F1, T8}

LoopIteration ==
    \/ ReceiveTimeout
    \/ ReceiveError
    \/ \E packet \in LivePackets : Receive(packet)

NextLive == Tick \/ LoopIteration

\* the loop keeps iterating and time keeps passing; which packet the radio
\* hands over, or none, is the channel's choice
SpecLive == Init /\ [][NextLive]_vars /\ WF_vars(LoopIteration) /\ WF_vars(Tick)

---------------------------------------------------------------------------
(* SpecTx: the transmitter script, lines 68-93, for the length of the      *)
(* serialized message.json                                                 *)

TxLengths ==
    {1, 243, 244, 500,
     65534 * chunk_size + 1, 65535 * chunk_size,
     65535 * chunk_size + 1, 65536 * chunk_size}

\* line 76: packet_content_id = 0, in every run of the script
script_packet_content_id == 0

\* lines 68-76: a run of the script at the point where it calls create_packets,
\* for a message.json that serializes to n bytes; earlier holds the ids of
\* the messages that earlier runs transmitted
TxStart(n, earlier) ==
    [pc |-> "create", length |-> n, total |-> 0, i |-> 0, sent |-> <<>>,
     id |-> script_packet_content_id, earlier |-> earlier]

InitTx ==
    /\ packet_buffer = <<>>
    /\ out = <<>>
    /\ now = 0
    /\ rx = NoPacket
    /\ trace = Trace("start", FALSE, FALSE, {}, FALSE)
    /\ log = <<>>
    /\ running = TRUE
    /\ tx \in {TxStart(n, <<>>) : n \in TxLengths}

\* line 79: packets = create_packets(...); the ValueError is not caught
TxCreate ==
    /\ tx.pc = "create"
    /\ tx' = IF DataTooLarge(tx.length)
             THEN [tx EXCEPT !.pc = "raised"]
             ELSE [tx EXCEPT !.pc = "send", !.total = total_chunks_for(tx.length)]
    /\ UNCHANGED <<packet_buffer, out, now, rx, trace, log, running>>

\* a variant that sends the same packet again when send returned False
AfterSend_Retry(t, ok) ==
    [t EXCEPT !.i = IF ok THEN t.i + 1 ELSE t.i,
              !.sent = Append(t.sent, [index |-> t.i, ok |-> ok])]

\* lines 87-90: one turn of the for loop; ok is what rfm95.send returned
AfterSend(t, ok) ==
    [t EXCEPT !.i = t.i + 1,
              !.sent = Append(t.sent, [index |-> t.i, ok |-> ok])]

\* lines 87-90: rfm95.send(packet), whose result is not looked at
TxSend ==
    /\ tx.pc = "send"
    /\ tx.i < tx.total
    /\ Len(tx.sent) < MaxSend
    /\ \E ok \in BOOLEAN : tx' = AfterSend(tx, ok)
    /\ UNCHANGED <<packet_buffer, out, now, rx, trace, log, running>>

\* lines 92-93: the loop is over
TxFinish ==
    /\ tx.pc = "send"
    /\ tx.i = tx.total
    /\ tx' = [tx EXCEPT !.pc = "done"]
    /\ UNCHANGED <<packet_buffer, out, now, rx, trace, log, running>>

\* the script has ended and is run again, for the next message.json: a new
\* process, which keeps nothing of the run before
TxRunAgain ==
    /\ tx.pc = "done"
    /\ Len(tx.earlier) + 1 < MaxRuns
    /\ \E n \in TxLengths : tx' = TxStart(n, Append(tx.earlier, tx.id))
    /\ UNCHANGED <<packet_buffer, out, now, rx, trace, log, running>>

NextTx == TxCreate \/ TxSend \/ TxFinish \/ TxRunAgain

SpecTx == InitTx /\ [][NextTx]_vars

---------------------------------------------------------------------------
(* SpecCP: create_packets applied to a document, a recipient and an id     *)

RecipientsCP == {-1, 0, 7, 255, 256, 263, 511}
IdsCP        == {0, 16909060, 2147483647}

InitCP ==
    /\ packet_buffer = <<>>
    /\ out = <<>>
    /\ now = 0
    /\ rx = NoPacket
    /\ trace = Trace("start", FALSE, FALSE, {}, FALSE)
    /\ log = <<>>
    /\ running = TRUE
    /\ tx \in {[pc |-> "create", doc |-> k, recipient_id |-> rid, id |-> pcid,
                packets |-> <<>>, parsed |-> <<>>] :
                  k \in 1..Len(DocsRT), rid \in RecipientsCP, pcid \in IdsCP}

\* packets = create_packets(json_data, recipient_id, packet_content_id)
CreatePackets ==
    /\ tx.pc = "create"
    /\ tx' = [tx EXCEPT !.pc = "made",
                        !.packets = create_packets(DocsRT[tx.doc], tx.recipient_id,
                                                   tx.id).packets]
    /\ UNCHANGED <<packet_buffer, out, now, rx, trace, log, running>>

\* parsed = parse_packet(packet), for each packet of the list
ParsePackets ==
    /\ tx.pc = "made"
    /\ tx' = [tx EXCEPT !.pc = "parsed",
                        !.parsed = [k \in 1..Len(tx.packets) |-> parse_packet(tx.packets[k])]]
    /\ UNCHANGED <<packet_buffer, out, now, rx, trace, log, running>>

NextCP == CreatePackets \/ ParsePackets

SpecCP == InitCP /\ [][NextCP]_vars

---------------------------------------------------------------------------
(* SpecKinds: one-packet messages of every kind of document                *)

DocsKinds ==
    << DocA7,                                 \* {"a": 7}
       VSeq(<<VNum(7), VStr(Key(97))>>),      \* [7, "a"]
       VStr(Key(97)),                         \* "a"
       VNum(-7),                              \* -7
       VNum(0),                               \* 0
       VBool(TRUE),                           \* true
       VBool(FALSE),                          \* false
       VNull >>                               \* null

PacketsKinds ==
    [k \in 1..Len(DocsKinds) |-> create_packets(DocsKinds[k], MY_ID, 0).packets[1]]

NextKinds ==
    \/ ReceiveTimeout
    \/ \E k \in 1..Len(DocsKinds) : Deliver(PacketsKinds[k])

SpecKinds == Init /\ [][NextKinds]_vars

---------------------------------------------------------------------------
(* SpecMix: the packets of several messages in flight at once, two of them *)
(* from two runs of the transmitter (both with id 0), the others with ids  *)
(* of their own                                                            *)

DocsMix ==
    << [doc |-> VStr(Repeat(97, 243)), id |-> script_packet_content_id],
       [doc |-> VStr(Repeat(98, 243)), id |-> script_packet_content_id],
       [doc |-> VStr(Repeat(98, 243)), id |-> 1],
       [doc |-> VNull, id |-> 2] >>

PacketsMix ==
    [k \in 1..Len(DocsMix) |-> create_packets(DocsMix[k].doc, MY_ID, DocsMix[k].id).packets]
PayloadMix == [k \in 1..Len(DocsMix) |-> JsonDumps(DocsMix[k].doc)]

AllPacketsMix ==
    UNION {{PacketsMix[k][i] : i \in 1..Len(PacketsMix[k])} : k \in 1..Len(DocsMix)}

NextMix ==
    \/ ReceiveTimeout
    \/ \E packet \in AllPacketsMix : Deliver(packet)

SpecMix == Init /\ [][NextMix]_vars

---------------------------------------------------------------------------
(* Properties                                                              *)

\* a packet's header read by hand: id, index, count, data, address
PId(p)    == from_bytes(SubSeq(p, 2, 5))
PIndex(p) == from_bytes(SubSeq(p, 6, 7))
PCount(p) == from_bytes(SubSeq(p, 8, 9))
PData(p)  == SubSeq(p, 10, Len(p))
Addressed(p) == Len(p) >= 9 /\ p[1] \in {MY_ID, 255}

\* this step is the loop iteration that received packet p
Received(p) == now' = now /\ tx' = tx /\ rx' = [got |-> TRUE, packet |-> p]

FragmentsOf(k) == {PacketsRT[k][i] : i \in 1..Len(PacketsRT[k])}
NoRepeat(seq) == \A i, j \in 1..Len(seq) : i # j => seq[i] # seq[j]
RemoveAt(seq, d) == SubSeq(seq, 1, d - 1) \o SubSeq(seq, d + 1, Len(seq))

\* every packet of document k has arrived exactly once, and nothing else
IsArrivalOf(seq, k) ==
    /\ Len(seq) = Len(PacketsRT[k])
    /\ \A p \in FragmentsOf(k) : \E j \in 1..Len(seq) : seq[j] = p

RECURSIVE RunLog(_, _, _)
\* the receiver's table and output after the arrivals seq, from an empty table
RunLog(seq, buffer, o) ==
    IF seq = <<>> THEN [buffer |-> buffer, out |-> o]
    ELSE RunLog(Tail(seq), LoopBody(buffer, o, 0, TRUE, Head(seq)).buffer,
                LoopBody(buffer, o, 0, TRUE, Head(seq)).out)

\* C1: every document's packets, each delivered once in any order to a
\* receiver with an empty table, make it print exactly one payload, the
\* original bytes.
C1_RoundTrip ==
    \A k \in 1..Len(DocsRT) :
        IsArrivalOf(log, k) => out = <<PayloadRT[k]>>

\* C2: one extra copy of a packet of the message, anywhere in the arrival
\* sequence, leaves the output and the table as they are without the copy.
C2_DuplicateTolerance ==
    \A k \in 1..Len(DocsRT) : \A d \in 1..Len(log) :
        (log[d] \in FragmentsOf(k) /\ IsArrivalOf(RemoveAt(log, d), k))
            => /\ out = RunLog(RemoveAt(log, d), <<>>, <<>>).out
               /\ packet_buffer = RunLog(RemoveAt(log, d), <<>>, <<>>).buffer

\* C6: whatever the order in which the fragments of a message arrive, the
\* payload is printed in the iteration that brings the last missing index,
\* and nothing is printed before.
C6_OrderIndependence ==
    \A k \in 1..Len(DocsRT) :
        (NoRepeat(log) /\ \A j \in 1..Len(log) : log[j] \in FragmentsOf(k))
            => out = IF Len(log) = Len(PacketsRT[k]) THEN <<PayloadRT[k]>> ELSE <<>>

\* the entry of packet p's id as it is once p's chunk is stored
ChunksAfter(p) ==
    (PIndex(p) :> PData(p))
    @@ (IF PId(p) \in DOMAIN packet_buffer THEN packet_buffer[PId(p)].chunks ELSE NoChunks)
CountAfter(p) ==
    IF PId(p) \in DOMAIN packet_buffer THEN packet_buffer[PId(p)].total_chunks ELSE PCount(p)
TextAfter(p) == rstrip(Concat(ChunksAfter(p), 0, CountAfter(p)))

\* C3: a payload is printed only in an iteration that received a packet
\* for this receiver and found every index 0..chunk_count-1 of that
\* packet's entry stored; a timeout iteration prints nothing, and the
\* entries the sweep evicts print nothing.
C3_NoPartialDelivery ==
    [][/\ out' # out => rx'.got
       /\ \A p \in Packets :
            (Received(p) /\ out' # out) =>
                /\ Addressed(p)
                /\ \A i \in 0..(CountAfter(p) - 1) : i \in DOMAIN ChunksAfter(p)
                /\ Len(out') = Len(out) + 1
                /\ PId(p) \notin trace'.expired]_vars

C3_Witness ==
    /\ out # <<>>
    /\ trace.all /\ ~trace.failed
    /\ trace.expired # {}

\* C4: at the end of every loop iteration no entry older than 60 seconds
\* is left in the table.
C4_SweepEveryIteration ==
    [][now' = now =>
          \A id \in DOMAIN packet_buffer' : now' - packet_buffer'[id].timestamp <= 60]_vars

Stale(id) == id \in DOMAIN packet_buffer /\ now - packet_buffer[id].timestamp > 60

\* C5: an entry older than 60 seconds is eventually removed from the
\* table, whatever traffic arrives, as long as the loop keeps iterating.
C5_StaleEntryRemoved ==
    \A id \in {0, 1} : Stale(id) ~> (id \notin DOMAIN packet_buffer)

\* C7: a packet addressed to neither MY_ID nor 255 leaves the table and
\* the output as they were.
C7_AddressFilter ==
    [][\A p \in Packets :
          (Received(p) /\ Len(p) >= 9 /\ p[1] \notin {MY_ID, 255})
              => (packet_buffer' = packet_buffer /\ out' = out)]_vars

C7_Witness ==
    /\ rx.packet = F1
    /\ 0 \in DOMAIN packet_buffer
    /\ DOMAIN packet_buffer[0].chunks = {0}
    /\ packet_buffer[0].total_chunks = 2

\* the entry holds every index of its count, and its text does not decode
UndecodableComplete(id) ==
    /\ id \in DOMAIN packet_buffer
    /\ DOMAIN packet_buffer[id].chunks = 0..(packet_buffer[id].total_chunks - 1)
    /\ ~JsonLoads(FullData(packet_buffer[id])).ok

\* C8: once a packet has completed an entry whose text does not decode,
\* the entry is no longer in the table.
C8_DecodeFailureDiscards ==
    (trace.kind = "stored") => ~UndecodableComplete(PId(rx.packet))

\* packet p completes its entry, and the entry's text decodes to a document
Completes(p) ==
    /\ Addressed(p)
    /\ DOMAIN ChunksAfter(p) = 0..(CountAfter(p) - 1)
    /\ PCount(p) = CountAfter(p)
    /\ JsonLoads(TextAfter(p)).ok

\* C9: an iteration whose packet completes an entry that decodes to a
\* document prints that document, one line, and deletes the entry itself,
\* before the sweep; no other iteration prints anything.
C9_EmitOnceAndRemove ==
    [][/\ out' # out => rx'.got
       /\ \A p \in Packets :
            Received(p) =>
                IF Completes(p)
                THEN /\ out' = Append(out, JsonDumps(JsonLoads(TextAfter(p)).v))
                     /\ PId(p) \notin DOMAIN packet_buffer'
                     /\ PId(p) \notin trace'.expired
                ELSE out' = out]_vars

\* C11: no packet and no exception stops the loop: after every step the
\* receiver is still in its loop, and a line is printed only by an
\* iteration that received a packet whose entry's text decoded, the line
\* being that document.
C11_FailuresContained ==
    [][/\ running'
       /\ out' # out =>
            \E p \in Packets :
                /\ Received(p)
                /\ JsonLoads(TextAfter(p)).ok
                /\ out' = Append(out, JsonDumps(JsonLoads(TextAfter(p)).v))]_vars

C11_Witness ==
    /\ trace.kind = "error"
    /\ running
    /\ UndecodableComplete(1)
    /\ out # <<>>

\* C12: a message that the sender transmits carries an id that none of the
\* messages it transmitted before carries (all of them are within the
\* receiver's 60 seconds here: the clock does not move).
C12_UniqueMessageIds ==
    tx.pc \in {"send", "done"} =>
        \A j \in 1..Len(tx.earlier) : tx.earlier[j] # tx.id

\* C13: the packets go to rfm95.send one by one in index order 0, 1, ...,
\* each once, whatever send returned, and the script ends after the send
\* of the last index.
C13_SendEachOnce ==
    /\ tx.pc \in {"send", "done"} =>
            /\ tx.i = Len(tx.sent)
            /\ Len(tx.sent) <= tx.total
            /\ \A j \in 1..Len(tx.sent) : tx.sent[j].index = j - 1
    /\ tx.pc = "done" => Len(tx.sent) = tx.total

C13_Witness ==
    /\ tx.pc = "done"
    /\ tx.total = 3
    /\ ~tx.sent[2].ok
    /\ tx.sent[3].ok

\* C14: the packets of one message all carry the recipient (its low byte),
\* the id and the count of the call, the count being the number of packets
\* and at most 65535; each is 252 bytes long; the k-th carries index k - 1,
\* which is below the count.
C14_PacketInvariants ==
    tx.pc = "made" =>
        /\ Len(tx.packets) <= 65535
        /\ \A k \in 1..Len(tx.packets) :
              /\ Len(tx.packets[k]) = 252
              /\ Len(PData(tx.packets[k])) = 243
              /\ tx.packets[k][1] = tx.recipient_id % 256
              /\ tx.packets[k][1] = tx.packets[1][1]
              /\ PId(tx.packets[k]) = tx.id
              /\ PCount(tx.packets[k]) = Len(tx.packets)
              /\ PIndex(tx.packets[k]) = k - 1
              /\ PIndex(tx.packets[k]) < PCount(tx.packets[k])

C14_Witness ==
    /\ tx.pc = "made"
    /\ Len(tx.packets) = 3
    /\ tx.recipient_id = 263
    /\ tx.id = 16909060

\* the payload's bytes from 243 * (k - 1) on, at most 243 of them
PayloadPart(payload, k) ==
    SubSeq(payload, 243 * (k - 1) + 1, Min(243 * k, Len(payload)))

\* C15: the number of packets is the payload's length divided by 243,
\* rounded up; the k-th packet's data is the payload's k-th run of 243
\* bytes, full for every packet but the last, followed by zero bytes up
\* to 243.
C15_ChunkContents ==
    tx.pc = "made" =>
        /\ 243 * Len(tx.packets) >= Len(PayloadRT[tx.doc])
        /\ 243 * (Len(tx.packets) - 1) < Len(PayloadRT[tx.doc])
        /\ \A k \in 1..Len(tx.packets) :
              /\ k < Len(tx.packets) => Len(PayloadPart(PayloadRT[tx.doc], k)) = 243
              /\ PData(tx.packets[k]) =
                     PayloadPart(PayloadRT[tx.doc], k)
                     \o [j \in 1..(243 - Len(PayloadPart(PayloadRT[tx.doc], k))) |-> 0]

C15_Witness ==
    /\ tx.pc = "made"
    /\ Len(PayloadRT[tx.doc]) = 500
    /\ Len(tx.packets) = 3
    /\ Len(rstrip(PData(tx.packets[3]))) = 14

\* C16: a packet shorter than 9 bytes leaves the table and the output as
\* they were; a packet of 9 bytes or more, one of the header alone
\* included, is parsed and reaches the address filter, which stores it or
\* turns it away by its address.
C16_ShortPacketRejected ==
    [][\A p \in Packets :
          Received(p) =>
              IF Len(p) < 9
              THEN /\ trace'.kind = "invalid"
                   /\ packet_buffer' = packet_buffer
                   /\ out' = out
              ELSE /\ trace'.kind = IF p[1] \in {MY_ID, 255} THEN "stored" ELSE "foreign"
                   /\ p[1] \in {MY_ID, 255} =>
                        \/ PId(p) \notin DOMAIN packet_buffer'
                        \/ packet_buffer'[PId(p)].chunks[PIndex(p)] = PData(p)]_vars

C16_Witness ==
    /\ rx.packet = T8
    /\ trace.kind = "invalid"
    /\ 0 \in DOMAIN packet_buffer
    /\ 5 \in DOMAIN packet_buffer[0].chunks
    /\ packet_buffer[0].chunks[5] = <<>>

\* C17: no entry of the table holds more chunks than the count recorded
\* for it.
C17_AtMostCountChunks ==
    \A id \in DOMAIN packet_buffer :
        Cardinality(DOMAIN packet_buffer[id].chunks) <= packet_buffer[id].total_chunks

\* packet p with its recipient byte set to r
WithRecipient(p, r) == [p EXCEPT ![1] = r]

\* C18: for every receiver id, the address filter lets a packet for 255
\* pass as it lets a packet for that id pass; and the iteration that
\* receives a packet for 255 leaves the table and the output as the same
\* packet addressed to MY_ID would.
C18_Broadcast ==
    [][\A p \in Packets :
            (Received(p) /\ Len(p) >= 9 /\ p[1] = 255) =>
                /\ \A my \in 0..255 :
                       ~NotAddressedTo(p[1], my) /\ ~NotAddressedTo(my, my)
                /\ packet_buffer' =
                       LoopBody(packet_buffer, out, now, TRUE, WithRecipient(p, MY_ID)).buffer
                /\ out' = LoopBody(packet_buffer, out, now, TRUE, WithRecipient(p, MY_ID)).out
                /\ trace'.kind = "stored"]_vars

C18_Witness ==
    /\ rx.packet = Y1
    /\ trace.kind = "stored"
    /\ trace.all /\ ~trace.failed
    /\ out = << <<91, 55, 93>> >>

\* C19: the iteration that stores a packet goes on to reassemble exactly
\* when the number of stored indices equals the count recorded for the
\* entry, whatever count the packet itself carries.
C19_RecordedCountDecides ==
    [][\A p \in Packets :
          (Received(p) /\ Addressed(p)) =>
              (trace'.all <=> Cardinality(DOMAIN ChunksAfter(p)) = CountAfter(p))]_vars

\* C20: when the completion check passes, the stored indices are exactly
\* 0..count-1.
C20_CompleteMeansAllIndices ==
    [][\A p \in Packets :
          (Received(p) /\ Addressed(p) /\ trace'.all) =>
              DOMAIN ChunksAfter(p) = 0..(CountAfter(p) - 1)]_vars

\* the entry of id is in the table and older than 60 seconds at time t
Old(buffer, id, t) == id \in DOMAIN buffer /\ t - buffer[id].timestamp > 60

\* C21: an iteration that reaches the sweep ends without any entry older
\* than 60 seconds, reports the ids it removed, and keeps every entry of
\* age 60 or less as it was, complete or not, except for the entry that
\* the iteration's own packet changed; a timeout iteration prints nothing.
C21_SweepExact ==
    [][(now' = now /\ trace'.swept) =>
          /\ \A id \in DOMAIN packet_buffer' : ~Old(packet_buffer', id, now)
          /\ \A id \in trace'.expired : id \notin DOMAIN packet_buffer'
          /\ \A id \in DOMAIN packet_buffer :
                (~rx'.got \/ id # PId(rx'.packet)) =>
                    IF Old(packet_buffer, id, now)
                    THEN id \in trace'.expired
                    ELSE /\ id \in DOMAIN packet_buffer'
                         /\ packet_buffer'[id] = packet_buffer[id]
                         /\ id \notin trace'.expired
          /\ ~rx'.got => out' = out]_vars

C21_Witness ==
    /\ trace.kind = "none"
    /\ trace.expired = {1}
    /\ 0 \in DOMAIN packet_buffer
    /\ packet_buffer[0].timestamp = 30
    /\ now = 61

\* C22: an entry that is in the table before and after a step has the
\* count and the timestamp it had; a packet changes its chunks only, by
\* storing its own chunk at its own index.
C22_EntryMetadataFixed ==
    [][\A id \in DOMAIN packet_buffer :
          id \in DOMAIN packet_buffer' =>
              /\ packet_buffer'[id].total_chunks = packet_buffer[id].total_chunks
              /\ packet_buffer'[id].timestamp = packet_buffer[id].timestamp
              /\ \/ packet_buffer'[id].chunks = packet_buffer[id].chunks
                 \/ /\ rx'.got /\ Len(rx'.packet) >= 9 /\ PId(rx'.packet) = id
                    /\ packet_buffer'[id].chunks =
                          (PIndex(rx'.packet) :> PData(rx'.packet))
                          @@ packet_buffer[id].chunks]_vars

C22_Witness ==
    /\ rx.packet = I1
    /\ now = 30
    /\ 0 \in DOMAIN packet_buffer
    /\ packet_buffer[0].total_chunks = 2
    /\ packet_buffer[0].timestamp = 0
    /\ DOMAIN packet_buffer[0].chunks = {0, 1}

\* the entry of id holds more chunks than the count recorded for it
OverFull(id) ==
    /\ id \in DOMAIN packet_buffer
    /\ Cardinality(DOMAIN packet_buffer[id].chunks) > packet_buffer[id].total_chunks

\* C28: while an entry holds more chunks than its recorded count, a packet
\* of its id prints nothing, and the entry leaves the table only through
\* the sweep; until then it stays over-full.
C28_OverFullNeverDelivered ==
    [][\A id \in {0, 1} :
          OverFull(id) =>
              /\ (rx'.got /\ Len(rx'.packet) >= 9 /\ PId(rx'.packet) = id) => out' = out
              /\ IF id \in DOMAIN packet_buffer'
                 THEN Cardinality(DOMAIN packet_buffer'[id].chunks)
                          > packet_buffer'[id].total_chunks
                 ELSE trace'.swept /\ id \in trace'.expired]_vars

C28_Witness ==
    /\ rx.packet = I1
    /\ trace.all /\ trace.failed
    /\ OverFull(0)
    /\ DOMAIN packet_buffer[0].chunks = {0, 1, 5}

\* C29: a packet that completes an entry older than 60 seconds, whose text
\* decodes, has the document printed in that iteration; the entry is
\* deleted by the completion branch and is not among the ids the sweep
\* removes.
C29_CompletionBeforeSweep ==
    [][\A p \in Packets :
          (Received(p) /\ Old(packet_buffer, PId(p), now) /\ Completes(p)) =>
              /\ out' = Append(out, JsonDumps(JsonLoads(TextAfter(p)).v))
              /\ trace'.all /\ ~trace'.failed
              /\ PId(p) \notin trace'.expired
              /\ PId(p) \notin DOMAIN packet_buffer']_vars

\* C24: a packet whose index is already stored in its entry replaces that
\* chunk and leaves the set of stored indices as it was; and while the
\* entry misses an index of its count, such a packet does not make the
\* completion check pass.
C24_DuplicateOverwrites ==
    [][\A p \in Packets :
          (/\ Received(p) /\ Addressed(p)
           /\ PId(p) \in DOMAIN packet_buffer
           /\ PIndex(p) \in DOMAIN packet_buffer[PId(p)].chunks) =>
              /\ PId(p) \in DOMAIN packet_buffer' =>
                    packet_buffer'[PId(p)].chunks =
                        [packet_buffer[PId(p)].chunks EXCEPT ![PIndex(p)] = PData(p)]
              /\ (\E i \in 0..(packet_buffer[PId(p)].total_chunks - 1) :
                        i \notin DOMAIN packet_buffer[PId(p)].chunks)
                    => ~trace'.all]_vars

C30_RecipientMasked ==
    tx.pc \in {"made", "parsed"} =>
        /\ tx.packets # <<>>
        /\ \A k \in 1..Len(tx.packets) :
              /\ tx.packets[k][1] \in 0..255
              /\ \E q \in -1..1 : tx.recipient_id = 256 * q + tx.packets[k][1]
              /\ tx.recipient_id = 256 => tx.packets[k][1] = 0
              /\ tx.recipient_id = 511 => tx.packets[k][1] = 255

C30_Witness ==
    /\ tx.pc = "parsed"
    /\ tx.recipient_id = 511
    /\ tx.parsed[1].recipient_id = 255
    /\ ~NotForUs(tx.parsed[1])

\* C25: a one-packet message of any kind of document (mapping, sequence,
\* string, number, boolean, null), delivered to a receiver with an empty
\* table, is printed as that document and leaves no entry.
C25_EveryKindEmitted ==
    \A k \in 1..Len(DocsKinds) :
        log = <<PacketsKinds[k]>> =>
            /\ out = <<JsonDumps(DocsKinds[k])>>
            /\ DOMAIN packet_buffer = {}

FragmentsMix(S) ==
    UNION {{PacketsMix[k][i] : i \in 1..Len(PacketsMix[k])} : k \in S}

\* S is several messages with ids of their own, and seq is their packets,
\* each once, in some order
InFlightArrived(seq, S) ==
    /\ Cardinality(S) >= 2
    /\ \A k, l \in S : k # l => DocsMix[k].id # DocsMix[l].id
    /\ NoRepeat(seq)
    /\ {seq[j] : j \in 1..Len(seq)} = FragmentsMix(S)

\* C23: a packet leaves every entry but the one of its own id as it was;
\* and when the packets of messages with distinct ids have all arrived,
\* each once and in any interleaving, each message has been printed, once
\* and whole, and nothing else.
C23_InterleavedMessages ==
    [][/\ \A p \in AllPacketsMix :
            Received(p) =>
                \A id \in (DOMAIN packet_buffer \cup DOMAIN packet_buffer') \ {PId(p)} :
                    /\ id \in DOMAIN packet_buffer
                    /\ id \in DOMAIN packet_buffer'
                    /\ packet_buffer'[id] = packet_buffer[id]
       /\ \A S \in SUBSET (1..Len(DocsMix)) :
            InFlightArrived(log', S) =>
                /\ Len(out') = Cardinality(S)
                /\ \A k \in S : \E i \in 1..Len(out') : out'[i] = PayloadMix[k]]_vars

\* C27: every line the receiver prints is the payload of one of the
\* messages that were sent.
C27_NoMixedPayload ==
    \A i \in 1..Len(out) : \E k \in 1..Len(DocsMix) : out[i] = PayloadMix[k]

\* C10: create_packets raises exactly when the payload needs more than
\* 65535 chunks, and then nothing has been handed to rfm95.send.
C10_OversizeRejection ==
    /\ tx.pc # "create" => (tx.pc = "raised" <=> tx.length > 65535 * 243)
    /\ tx.pc = "raised" => tx.sent = <<>>
    /\ tx.pc \in {"send", "done"} => tx.total <= 65535

C10_Witness ==
    /\ tx.pc = "raised"
    /\ tx.length = 65535 * 243 + 1

=============================================================================
